---------------------------- MODULE Spec2Model ----------------------------
(***************************************************************************)
(* A model of nr-stepfunction-fetcher: the Step Functions fetcher          *)
(* (package stepfunctions) and the output writer (package main).           *)
(*                                                                         *)
(* Strings whose characters matter (names that end up in file names) are   *)
(* sequences of one-character strings.  Event types, statuses and JSON     *)
(* field names are TLA+ strings.  A formatted time (time.RFC3339) is the   *)
(* empty sequence for "" and <<s>> for the instant s seconds after the     *)
(* epoch: the layout has no fractional seconds.  A duration string is      *)
(* <<"N/A">> or <<"dur", ms>>, the duration in milliseconds.               *)
(***************************************************************************)
EXTENDS Integers, Sequences, FiniteSets, TLC

VARIABLES
    \* ---- one call of getExpressExecutions / getExecutions
    fetcher,        \* "EXPRESS" or "STANDARD": the branch of getStateMachineDetails
    pcF,            \* "loop" | "done"
    logEvents,      \* result.Events consumed so far by the correlation loop
    executionMap,   \* executionMap of getExpressExecutions
    pages,          \* ListExecutions pages fetched so far (getExecutions)
    page,           \* rest of the current page of getExecutions
    described,      \* DescribeExecution results handled so far
    executions,     \* the returned []Execution
    fetchErr,       \* the returned error (TRUE: non-nil)
    \* ---- one call of parseDefinition
    definition,     \* the argument: the text of an ASL definition
    pcP,            \* "call" | "returned"
    parsed,         \* the result: [err, states]
    \* ---- one run of main
    pcR,            \* "list" | "mkdir" | "states" | "executions" | "save" | "exit",
                    \* or "fatalList" | "fatalMkdir" after log.Fatalf
    listedPages,    \* ListStateMachines pages fetched so far
    listing,        \* the ARNs of the pages fetched so far, in order
    pageItems,      \* rest of page.StateMachines (state machine ARNs)
    discovered,     \* the machines listed so far, each with its describe result
    stateMachines,  \* the []StateMachine built by ListStateMachines
    dirCreated,     \* os.MkdirAll succeeded
    smIdx,          \* position of processStateMachines in stateMachines
    itemIdx,        \* position of processStates / processExecutions
    files,          \* the output directory: file name -> content written
    derived,        \* every file name derived so far, with the item it is for
    writeFailures   \* os.WriteFile errors so far

fetchVars == <<fetcher, pcF, logEvents, executionMap, pages, page, described,
               executions, fetchErr>>

parseVars == <<definition, pcP, parsed>>

runVars == <<pcR, listedPages, listing, pageItems, discovered, stateMachines, dirCreated,
             smIdx, itemIdx, files, derived, writeFailures>>

vars == <<fetchVars, parseVars, runVars>>

-----------------------------------------------------------------------------
(* Bounds of the model *)

MaxEvents == 3
MaxExecs == 2
MaxPage == 2
MaxWriteFailures == 1

-----------------------------------------------------------------------------
(* Generic helpers *)

Range(s) == {s[i] : i \in 1..Len(s)}

Perms(S) == {s \in [1..Cardinality(S) -> S] : Range(s) = S}

-----------------------------------------------------------------------------
(* Times and durations *)

EmptyStr == <<>>
NA == <<"N/A">>

\* time.UnixMilli(ms).Format(time.RFC3339) and StartDate.Format(time.RFC3339)
FormatRFC3339(ms) == <<ms \div 1000>>

\* time.Parse(time.RFC3339, s), error dropped: the zero Time on failure.
\* Instants are kept in milliseconds.
ZeroTime == 0
ParseRFC3339(s) == IF Len(s) = 1 THEN s[1] * 1000 ELSE ZeroTime

\* Mutant of DurationString: the operands of Sub exchanged.
DurationStringSwapped(endMs, startMs) == <<"dur", startMs - endMs>>

\* fmt.Sprintf("%v", end.Sub(start))
DurationString(endMs, startMs) == <<"dur", endMs - startMs>>

-----------------------------------------------------------------------------
(* getExpressExecutions: the correlation loop *)

\* Execution ARNs; they differ only in a character that file names replace.
Arns == {<<"e", ":", "1">>, <<"e", "_", "1">>}
\* Milliseconds: two in the same second, one in the second before.
Timestamps == {900, 1100, 1950}
LifecycleTypes == {"ExecutionStarted", "ExecutionSucceeded", "ExecutionTimedOut"}

\* A log message: one that json.Unmarshal rejects, or a decoded logEvent.
BadMessage == [parses |-> FALSE, EventType |-> "", ExecutionArn |-> <<>>, Timestamp |-> 0]
Messages ==
    {BadMessage} \cup
    [parses : {TRUE}, EventType : LifecycleTypes, ExecutionArn : Arns,
     Timestamp : Timestamps] \cup
    [parses : {TRUE}, EventType : {"TaskStateEntered"}, ExecutionArn : Arns,
     Timestamp : {900}]

\* strings.HasPrefix(t, "Execution")
HasPrefixExecution(t) ==
    t \in {"ExecutionStarted", "ExecutionSucceeded", "ExecutionFailed",
           "ExecutionTimedOut", "ExecutionAborted"}

\* strings.Replace(t, "Execution", "", 1)
StripExecution(t) ==
    CASE t = "ExecutionStarted" -> "Started"
      [] t = "ExecutionSucceeded" -> "Succeeded"
      [] t = "ExecutionFailed" -> "Failed"
      [] t = "ExecutionTimedOut" -> "TimedOut"
      [] t = "ExecutionAborted" -> "Aborted"
      [] OTHER -> t

OpenExecution(log) ==
    [ExecutionArn |-> log.ExecutionArn,
     Status |-> "RUNNING",
     StartTime |-> FormatRFC3339(log.Timestamp),
     EndTime |-> EmptyStr,
     Duration |-> NA]

CloseExecution(exec, log) ==
    LET timestamp == FormatRFC3339(log.Timestamp)
    IN [exec EXCEPT !.Status = StripExecution(log.EventType),
                    !.EndTime = timestamp,
                    !.Duration = DurationString(ParseRFC3339(timestamp),
                                                ParseRFC3339(exec.StartTime))]

\* Mutant of Correlate: a closing event for a record that is already closed
\* is dropped.
CorrelateDropAfterClose(m, msg) ==
    IF ~msg.parses THEN m
    ELSE IF msg.ExecutionArn \notin DOMAIN m /\ msg.EventType = "ExecutionStarted"
    THEN (msg.ExecutionArn :> OpenExecution(msg)) @@ m
    ELSE IF /\ msg.ExecutionArn \in DOMAIN m
            /\ m[msg.ExecutionArn].EndTime = EmptyStr
            /\ HasPrefixExecution(msg.EventType)
            /\ msg.EventType # "ExecutionStarted"
    THEN [m EXCEPT ![msg.ExecutionArn] = CloseExecution(m[msg.ExecutionArn], msg)]
    ELSE m

\* Mutant of Correlate: the "!exists" test is missing, so that a second start
\* event opens the record again.
CorrelateReopen(m, msg) ==
    IF ~msg.parses THEN m
    ELSE IF msg.EventType = "ExecutionStarted"
    THEN [a \in DOMAIN m \cup {msg.ExecutionArn} |->
            IF a = msg.ExecutionArn THEN OpenExecution(msg) ELSE m[a]]
    ELSE IF /\ msg.ExecutionArn \in DOMAIN m
            /\ HasPrefixExecution(msg.EventType)
    THEN [m EXCEPT ![msg.ExecutionArn] = CloseExecution(m[msg.ExecutionArn], msg)]
    ELSE m

\* The body of "for _, event := range result.Events".
Correlate(m, msg) ==
    IF ~msg.parses THEN m
    ELSE IF msg.ExecutionArn \notin DOMAIN m /\ msg.EventType = "ExecutionStarted"
    THEN (msg.ExecutionArn :> OpenExecution(msg)) @@ m
    ELSE IF /\ msg.ExecutionArn \in DOMAIN m
            /\ HasPrefixExecution(msg.EventType)
            /\ msg.EventType # "ExecutionStarted"
    THEN [m EXCEPT ![msg.ExecutionArn] = CloseExecution(m[msg.ExecutionArn], msg)]
    ELSE m

\* "for _, exec := range executionMap": Go's map order is unspecified.
MapValueOrders(m) == {[i \in 1..Len(p) |-> m[p[i]]] : p \in Perms(DOMAIN m)}

ExpressEvent ==
    /\ fetcher = "EXPRESS" /\ pcF = "loop"
    /\ Len(logEvents) < MaxEvents
    /\ \E msg \in Messages :
        /\ logEvents' = Append(logEvents, msg)
        /\ executionMap' = Correlate(executionMap, msg)
    /\ UNCHANGED <<parseVars, runVars>>
    /\ UNCHANGED <<fetcher, pcF, pages, page, described, executions, fetchErr>>

ExpressReturn ==
    /\ fetcher = "EXPRESS" /\ pcF = "loop"
    /\ \E out \in MapValueOrders(executionMap) : executions' = out
    /\ fetchErr' = FALSE
    /\ pcF' = "done"
    /\ UNCHANGED <<parseVars, runVars>>
    /\ UNCHANGED <<fetcher, logEvents, executionMap, pages, page, described>>

-----------------------------------------------------------------------------
(* getExecutions: STANDARD workflows *)

Statuses == {"RUNNING", "SUCCEEDED"}
NoStop == -1

\* A DescribeExecution outcome: an error, or the fields the loop reads.
\* StopDate = NoStop stands for a nil StopDate.
DescribeFailure ==
    [ok |-> FALSE, ExecutionArn |-> <<>>, Status |-> "", StartDate |-> 0,
     StopDate |-> NoStop]
DescribeOutcomes ==
    {DescribeFailure} \cup
    [ok : {TRUE}, ExecutionArn : {<<"e", ":", "1">>}, Status : Statuses,
     StartDate : Timestamps, StopDate : Timestamps \cup {NoStop}]

StandardExecution(d) ==
    LET endTime == IF d.StopDate # NoStop THEN FormatRFC3339(d.StopDate) ELSE EmptyStr
        duration == IF d.StopDate # NoStop
                    THEN DurationString(ParseRFC3339(endTime),
                                        ParseRFC3339(FormatRFC3339(d.StartDate)))
                    ELSE NA
    IN [ExecutionArn |-> d.ExecutionArn,
        Status |-> d.Status,
        StartTime |-> FormatRFC3339(d.StartDate),
        EndTime |-> endTime,
        Duration |-> duration]

\* paginator.NextPage succeeds with a page of n listed executions.
StdNextPage ==
    /\ fetcher = "STANDARD" /\ pcF = "loop"
    /\ page = 0
    /\ \E n \in 0..MaxPage :
        /\ Len(described) + n <= MaxExecs
        /\ page' = n
        /\ pages' = pages + 1
    /\ pages < MaxExecs + 1
    /\ UNCHANGED <<parseVars, runVars>>
    /\ UNCHANGED <<fetcher, pcF, logEvents, executionMap, described, executions,
                   fetchErr>>

\* paginator.NextPage fails: return nil, err.
StdNextPageFail ==
    /\ fetcher = "STANDARD" /\ pcF = "loop"
    /\ page = 0
    /\ executions' = <<>>
    /\ fetchErr' = TRUE
    /\ pcF' = "done"
    /\ UNCHANGED <<parseVars, runVars>>
    /\ UNCHANGED <<fetcher, logEvents, executionMap, pages, page, described>>

\* The body of "for _, exec := range page.Executions".
StdDescribe ==
    /\ fetcher = "STANDARD" /\ pcF = "loop"
    /\ page > 0
    /\ \E d \in DescribeOutcomes :
        /\ described' = Append(described, d)
        /\ executions' = IF d.ok THEN Append(executions, StandardExecution(d))
                         ELSE executions
    /\ page' = page - 1
    /\ UNCHANGED <<parseVars, runVars>>
    /\ UNCHANGED <<fetcher, pcF, logEvents, executionMap, pages, fetchErr>>

\* paginator.HasMorePages() is false: return executions, nil.
StdReturn ==
    /\ fetcher = "STANDARD" /\ pcF = "loop"
    /\ page = 0
    /\ pages > 0
    /\ fetchErr' = FALSE
    /\ pcF' = "done"
    /\ UNCHANGED <<parseVars, runVars>>
    /\ UNCHANGED <<fetcher, logEvents, executionMap, pages, page, described,
                   executions>>

FetchIdle ==
    /\ fetcher = "NONE"
    /\ pcF = "idle"
    /\ logEvents = <<>>
    /\ executionMap = <<>>
    /\ pages = 0
    /\ page = 0
    /\ described = <<>>
    /\ executions = <<>>
    /\ fetchErr = FALSE

FetchInit ==
    /\ fetcher \in {"EXPRESS", "STANDARD"}
    /\ pcF = "loop"
    /\ logEvents = <<>>
    /\ executionMap = <<>>
    /\ pages = 0
    /\ page = 0
    /\ described = <<>>
    /\ executions = <<>>
    /\ fetchErr = FALSE

FetchNext ==
    \/ ExpressEvent
    \/ ExpressReturn
    \/ StdNextPage
    \/ StdNextPageFail
    \/ StdDescribe
    \/ StdReturn

-----------------------------------------------------------------------------
(* JSON texts and the Go values encoding/json decodes them to *)

\* A JSON value of the text.  A number literal is the integer
\* (IF wide THEN 2^53 ELSE 0) + off.
JNull == [k |-> "null"]
JBool(b) == [k |-> "bool", b |-> b]
JStr(str) == [k |-> "str", s |-> str]
JNum(w, n) == [k |-> "num", wide |-> w, off |-> n]
JArr == [k |-> "arr"]
JObj(f) == [k |-> "obj", o |-> f]

\* A Go value held in an interface{}; GoNil is also the nil map.
GoNil == [g |-> "nil"]
GoBool(b) == [g |-> "bool", b |-> b]
GoString(str) == [g |-> "string", s |-> str]
GoNumber(w, n) == [g |-> "number", wide |-> w, off |-> n]
GoSlice == [g |-> "slice"]
GoMap(f) == [g |-> "map", m |-> f]

\* strconv.ParseFloat(literal, 64): the nearest float64, ties to even.  Below
\* 2^53 every integer is a float64; from 2^53 on only the even ones are.
Float64Off(w, n) ==
    IF ~w THEN n
    ELSE CASE n = 1 -> 0
           [] n = 3 -> 4
           [] OTHER -> n

RECURSIVE DecodeAny(_)
\* decodeState.valueInterface: a JSON value decoded into an interface{}.
DecodeAny(v) ==
    CASE v.k = "null" -> GoNil
      [] v.k = "bool" -> GoBool(v.b)
      [] v.k = "str" -> GoString(v.s)
      [] v.k = "num" -> GoNumber(v.wide, Float64Off(v.wide, v.off))
      [] v.k = "arr" -> GoSlice
      [] v.k = "obj" -> GoMap([f \in DOMAIN v.o |-> DecodeAny(v.o[f])])

-----------------------------------------------------------------------------
(* parseDefinition *)

StateNames == {<<"A">>, <<"B">>}

\* The text of a definition: malformed JSON, or a JSON value.
Malformed == [wf |-> FALSE]
WellFormed(v) == [wf |-> TRUE, v |-> v]

\* json.Unmarshal into struct{States map[string]map[string]interface{}}
\* reports an error: a syntax error, or a value that does not fit the type
\* (the top level and "States" must be objects or null, each entry of "States"
\* an object or null).
FitsMap(v) == v.k \in {"null", "obj"}

\* Mutant of UnmarshalFails: only a syntax error is reported.
UnmarshalFailsOnSyntaxOnly(def) == ~def.wf

UnmarshalFails(def) ==
    \/ ~def.wf
    \/ ~FitsMap(def.v)
    \/ /\ def.v.k = "obj"
       /\ "States" \in DOMAIN def.v.o
       /\ LET st == def.v.o["States"]
          IN \/ ~FitsMap(st)
             \/ /\ st.k = "obj"
                /\ \E name \in DOMAIN st.o : ~FitsMap(st.o[name])

\* aslDef.States after json.Unmarshal: a map from state name to the decoded
\* object (GoNil for a null entry; an entry that does not fit is left nil).
UnmarshalStates(def) ==
    IF ~def.wf \/ def.v.k # "obj" \/ "States" \notin DOMAIN def.v.o THEN <<>>
    ELSE LET st == def.v.o["States"]
         IN IF st.k # "obj" THEN <<>>
            ELSE [name \in DOMAIN st.o |->
                    IF st.o[name].k = "obj" THEN DecodeAny(st.o[name]) ELSE GoNil]

\* rawDef[field] of a map that may be nil
MapIndex(rawDef, field) ==
    IF rawDef.g = "map" /\ field \in DOMAIN rawDef.m THEN rawDef.m[field] ELSE GoNil

\* x.(string), x.(bool), x.(map[string]interface{}) with the ok result dropped
AssertString(x) == IF x.g = "string" THEN x.s ELSE ""
AssertBool(x) == IF x.g = "bool" THEN x.b ELSE FALSE
AssertMap(x) == IF x.g = "map" THEN x ELSE GoNil

\* Mutant of ParseState: RawDefinition rebuilt from the extracted fields.
ParseStateProjected(name, rawDef) ==
    [Name |-> name,
     Type |-> AssertString(MapIndex(rawDef, "Type")),
     Next |-> AssertString(MapIndex(rawDef, "Next")),
     End |-> AssertBool(MapIndex(rawDef, "End")),
     Parameters |-> AssertMap(MapIndex(rawDef, "Parameters")),
     RawDefinition |->
        IF rawDef.g # "map" THEN rawDef
        ELSE GoMap([f \in DOMAIN rawDef.m \cap {"Type", "Next", "End", "Parameters"}
                      |-> rawDef.m[f]])]

\* The body of "for name, rawDef := range aslDef.States".
ParseState(name, rawDef) ==
    [Name |-> name,
     Type |-> AssertString(MapIndex(rawDef, "Type")),
     Next |-> AssertString(MapIndex(rawDef, "Next")),
     End |-> AssertBool(MapIndex(rawDef, "End")),
     Parameters |-> AssertMap(MapIndex(rawDef, "Parameters")),
     RawDefinition |-> rawDef]

\* The results parseDefinition may return: one per iteration order of the map.
ParseDefinition(def) ==
    IF UnmarshalFails(def) THEN {[err |-> TRUE, states |-> <<>>]}
    ELSE LET m == UnmarshalStates(def)
         IN {[err |-> FALSE,
              states |-> [i \in 1..Len(p) |-> ParseState(p[i], m[p[i]])]] :
                p \in Perms(DOMAIN m)}

\* The inputs explored: every field of a state is absent, of the right type or
\* of a wrong type.
Absent == [k |-> "absent"]
FieldNames == {"Type", "Next", "End", "Parameters", "Result"}
FieldChoices(f) ==
    CASE f = "Type" -> {Absent, JStr("Task"), JNum(FALSE, 1)}
      [] f = "Next" -> {Absent, JStr("B"), JNull}
      [] f = "End" -> {Absent, JBool(TRUE), JStr("true")}
      [] f = "Parameters" -> {Absent, JObj([n |-> JNum(TRUE, 3)]), JArr}
      [] f = "Result" -> {Absent, JNum(TRUE, 1)}
StateObject(t, n, e, p, r) ==
    LET c == [Type |-> t, Next |-> n, End |-> e, Parameters |-> p, Result |-> r]
    IN JObj([f \in {g \in FieldNames : c[g] # Absent} |-> c[f]])
StateObjects ==
    {StateObject(t, n, e, p, r) :
        t \in FieldChoices("Type"), n \in FieldChoices("Next"),
        e \in FieldChoices("End"), p \in FieldChoices("Parameters"),
        r \in FieldChoices("Result")}
EntryValues == StateObjects \cup {JNull, JNum(FALSE, 2), JStr("Pass")}
\* The definition texts explored.
IsDefinition(def) ==
    \/ def = Malformed
    \/ \E v \in {JNull, JArr, JNum(FALSE, 0), JObj(<<>>), JObj([StartAt |-> JStr("A")])} :
            def = WellFormed(v)
    \/ \E D \in SUBSET StateNames : \E f \in [D -> EntryValues] :
            \/ def = WellFormed(JObj([States |-> JObj(f)]))
            \/ def = WellFormed(JObj([StartAt |-> JStr("A"), States |-> JObj(f)]))
    \/ \E st \in {JNull, JArr} : def = WellFormed(JObj([States |-> st]))

ParseIdle ==
    /\ definition = Malformed
    /\ pcP = "idle"
    /\ parsed = [err |-> FALSE, states |-> <<>>]

ParseInit ==
    /\ IsDefinition(definition)
    /\ pcP = "call"
    /\ parsed = [err |-> FALSE, states |-> <<>>]

ParseCall ==
    /\ pcP = "call"
    /\ \E r \in ParseDefinition(definition) : parsed' = r
    /\ pcP' = "returned"
    /\ UNCHANGED <<definition, fetchVars, runVars>>

ParseNext == ParseCall

-----------------------------------------------------------------------------
(* getStateMachineDetails and the fetchers as functions of what AWS returns *)

RECURSIVE CorrelateAll(_, _)
\* The loop of getExpressExecutions over all of result.Events.
CorrelateAll(m, events) ==
    IF events = <<>> THEN m
    ELSE CorrelateAll(Correlate(m, Head(events)), Tail(events))

Failure == [err |-> TRUE]

\* getExpressExecutions(sm): the results it may return.  d.logging is
\* "nil" (no LoggingConfiguration), "noDestinations", "noLogGroupArn" or
\* "configured"; d.logQueryOk is the outcome of FilterLogEvents.
GetExpressExecutions(d) ==
    IF d.logging \in {"nil", "noDestinations"} THEN {Failure}
    ELSE IF d.logging = "noLogGroupArn" THEN {Failure}
    ELSE IF ~d.logQueryOk THEN {Failure}
    ELSE {[err |-> FALSE, executions |-> out] :
            out \in MapValueOrders(CorrelateAll(<<>>, d.events))}

RECURSIVE DescribeAll(_)
\* The inner loop of getExecutions over one page.
DescribeAll(ds) ==
    IF ds = <<>> THEN <<>>
    ELSE IF Head(ds).ok THEN <<StandardExecution(Head(ds))>> \o DescribeAll(Tail(ds))
    ELSE DescribeAll(Tail(ds))

FailedPage == [ok |-> FALSE, items |-> <<>>]
Page(ds) == [ok |-> TRUE, items |-> ds]

RECURSIVE GetExecutionsFrom(_, _)
\* getExecutions: the loop over the pages of ListExecutions.
GetExecutionsFrom(executionsSoFar, ps) ==
    IF ps = <<>> THEN [err |-> FALSE, executions |-> executionsSoFar]
    ELSE IF ~Head(ps).ok THEN Failure
    ELSE GetExecutionsFrom(executionsSoFar \o DescribeAll(Head(ps).items), Tail(ps))

GetExecutions(d) == GetExecutionsFrom(<<>>, d.execPages)

NAArn == <<"N", "/", "A">>

NotSupported ==
    [ExecutionArn |-> NAArn,
     Status |-> "Not supported (check CloudWatch Logs configuration)",
     StartTime |-> EmptyStr,
     EndTime |-> EmptyStr,
     Duration |-> NA]

\* fmt.Sprintf("Unknown state machine type: %s", smType)
SprintfUnknownType(smType) ==
    CASE smType = "" -> "Unknown state machine type: "
      [] smType = "LEGACY" -> "Unknown state machine type: LEGACY"

UnknownType(smType) ==
    [ExecutionArn |-> NAArn,
     Status |-> SprintfUnknownType(smType),
     StartTime |-> EmptyStr,
     EndTime |-> EmptyStr,
     Duration |-> NA]

\* The executions of a described machine, by its type.
FetchExecutions(d) ==
    IF d.type = "EXPRESS"
    THEN {IF r.err THEN [err |-> FALSE, executions |-> <<NotSupported>>] ELSE r :
            r \in GetExpressExecutions(d)}
    ELSE IF d.type = "STANDARD" THEN {GetExecutions(d)}
    ELSE {[err |-> FALSE, executions |-> <<UnknownType(d.type)>>]}

\* getStateMachineDetails(arn): the results it may return, d being what
\* DescribeStateMachine and the later calls return.  RoleARN, Definition and
\* CreationDate are copied from the describe result and are left out.
GetStateMachineDetails(arn, d) ==
    IF ~d.describeOk THEN {Failure}
    ELSE UNION {
        IF p.err THEN {Failure}
        ELSE {IF e.err THEN Failure
              ELSE [err |-> FALSE,
                    sm |-> [Name |-> d.name, ARN |-> arn, Type |-> d.type,
                            States |-> p.states, Executions |-> e.executions]] :
                e \in FetchExecutions(d)} :
        p \in ParseDefinition(d.definition)}

-----------------------------------------------------------------------------
(* What AWS may return for a state machine *)

\* The state machines of the region, and their names (unique in a region).
MachineArns == {"arn:m", "arn:m_a"}
NameOf(arn) == IF arn = "arn:m" THEN <<"m">> ELSE <<"m", "_", "a">>

EmptyObject == JObj(<<>>)
RunDefinitions ==
    {Malformed,
     WellFormed(JObj([States |-> JObj((<<"b">> :> JNum(FALSE, 2)))])),
     WellFormed(JObj([States |-> JObj((<<"b">> :> EmptyObject))])),
     WellFormed(JObj([States |->
        JObj((<<"a", "_", "b">> :> EmptyObject)
             @@ (<<"a", "/", "b">> :> JObj([Type |-> JStr("Task")])))]))}

Started(arn) ==
    [parses |-> TRUE, EventType |-> "ExecutionStarted", ExecutionArn |-> arn,
     Timestamp |-> 900]
Succeeded(arn) ==
    [parses |-> TRUE, EventType |-> "ExecutionSucceeded", ExecutionArn |-> arn,
     Timestamp |-> 1950]
RunEvents ==
    {<<Started(NAArn)>>,
     <<Started(<<"e", ":", "1">>), Started(<<"e", "_", "1">>),
       Succeeded(<<"e", ":", "1">>)>>}

Described(arn) ==
    [ok |-> TRUE, ExecutionArn |-> arn, Status |-> "SUCCEEDED", StartDate |-> 900,
     StopDate |-> 1950]
RunExecPages ==
    {<<FailedPage>>,
     <<Page(<<Described(<<"e", ":", "1">>), DescribeFailure>>), Page(<<>>)>>,
     <<Page(<<Described(<<"e", ":", "1">>)>>), FailedPage>>}

DescribeResult(name, ok, t, def, logging, queryOk, events, execPages) ==
    [name |-> name, describeOk |-> ok, type |-> t, definition |-> def,
     logging |-> logging, logQueryOk |-> queryOk, events |-> events,
     execPages |-> execPages]

GoodDefinitions == {def \in RunDefinitions : ~UnmarshalFails(def)}

\* What is returned for machine arn; the fields that are not read (after a
\* failure, or by another type's branch) are fixed.
DescribeResults(arn) ==
    LET n == NameOf(arn)
    IN {DescribeResult(n, FALSE, "", Malformed, "nil", FALSE, <<>>, <<>>)}
       \cup {DescribeResult(n, TRUE, "EXPRESS", def, "nil", FALSE, <<>>, <<>>) :
                def \in RunDefinitions \ GoodDefinitions}
       \cup {DescribeResult(n, TRUE, "EXPRESS", def, lg, FALSE, <<>>, <<>>) :
                def \in GoodDefinitions,
                lg \in {"nil", "noDestinations", "noLogGroupArn", "configured"}}
       \cup {DescribeResult(n, TRUE, "EXPRESS", def, "configured", TRUE, ev, <<>>) :
                def \in GoodDefinitions, ev \in RunEvents}
       \cup {DescribeResult(n, TRUE, "STANDARD", def, "nil", FALSE, <<>>, ps) :
                def \in GoodDefinitions, ps \in RunExecPages}
       \cup {DescribeResult(n, TRUE, "", def, "nil", FALSE, <<>>, <<>>) :
                def \in GoodDefinitions}

-----------------------------------------------------------------------------
(* ListStateMachines *)

\* A Go slice: nil until the first append.
NilSlice == [isNil |-> TRUE, elems |-> <<>>]
AppendSlice(sl, x) == [isNil |-> FALSE, elems |-> Append(sl.elems, x)]

Listed == Range(listing)

\* paginator.NextPage succeeds with a page of machines not listed before.
ListNextPage ==
    /\ pcR = "list" /\ pageItems = <<>>
    /\ listedPages < Cardinality(MachineArns)
    /\ \E S \in SUBSET (MachineArns \ Listed) : \E p \in Perms(S) :
        /\ pageItems' = p
        /\ listing' = listing \o p
    /\ listedPages' = listedPages + 1
    /\ UNCHANGED <<discovered, stateMachines, dirCreated, smIdx, itemIdx, files,
                   derived, writeFailures, pcR>>
    /\ UNCHANGED <<fetchVars, parseVars>>

\* paginator.NextPage fails: ListStateMachines returns nil and the error,
\* and initializeFetcherAndStateMachines ends the process (log.Fatalf).
ListNextPageFail ==
    /\ pcR = "list" /\ pageItems = <<>>
    /\ stateMachines' = NilSlice
    /\ pcR' = "fatalList"
    /\ UNCHANGED <<listedPages, listing, pageItems, discovered, dirCreated, smIdx, itemIdx,
                   files, derived, writeFailures>>
    /\ UNCHANGED <<fetchVars, parseVars>>

\* Mutant of DetailFetch: a failed detail fetch ends the loop over the page.
DetailFetchStopsAtFailure ==
    /\ pcR = "list" /\ pageItems # <<>>
    /\ LET arn == Head(pageItems)
       IN \E d \in DescribeResults(arn) : \E details \in GetStateMachineDetails(arn, d) :
            /\ discovered' = Append(discovered, [arn |-> arn, d |-> d])
            /\ stateMachines' = IF details.err THEN stateMachines
                                ELSE AppendSlice(stateMachines, details.sm)
            /\ pageItems' = IF details.err THEN <<>> ELSE Tail(pageItems)
    /\ UNCHANGED <<listedPages, listing, dirCreated, smIdx, itemIdx, files, derived,
                   writeFailures, pcR>>
    /\ UNCHANGED <<fetchVars, parseVars>>

\* The body of "for _, sm := range page.StateMachines".
DetailFetch ==
    /\ pcR = "list" /\ pageItems # <<>>
    /\ LET arn == Head(pageItems)
       IN \E d \in DescribeResults(arn) : \E details \in GetStateMachineDetails(arn, d) :
            /\ discovered' = Append(discovered, [arn |-> arn, d |-> d])
            /\ stateMachines' = IF details.err THEN stateMachines
                                ELSE AppendSlice(stateMachines, details.sm)
    /\ pageItems' = Tail(pageItems)
    /\ UNCHANGED <<listedPages, listing, dirCreated, smIdx, itemIdx, files, derived,
                   writeFailures, pcR>>
    /\ UNCHANGED <<fetchVars, parseVars>>

\* paginator.HasMorePages() is false: ListStateMachines returns, and main
\* goes on to createOutputDirectory.
ListReturn ==
    /\ pcR = "list" /\ pageItems = <<>>
    /\ listedPages > 0
    /\ pcR' = "mkdir"
    /\ UNCHANGED <<listedPages, listing, pageItems, discovered, stateMachines, dirCreated,
                   smIdx, itemIdx, files, derived, writeFailures>>
    /\ UNCHANGED <<fetchVars, parseVars>>

-----------------------------------------------------------------------------
(* main: file names *)

\* strings.ReplaceAll(s, old, new) for one-character old and new
ReplaceAll(str, old, new) ==
    [i \in 1..Len(str) |-> IF str[i] = old THEN new ELSE str[i]]

invalidChars == <<"/", "\\", ":", "*", "?", "\"", "<", ">", "|">>

RECURSIVE SanitizeFrom(_, _)
SanitizeFrom(result, chars) ==
    IF chars = <<>> THEN result
    ELSE SanitizeFrom(ReplaceAll(result, Head(chars), "_"), Tail(chars))

sanitizeFileName(name) == SanitizeFrom(name, invalidChars)

DotJson == <<".", "j", "s", "o", "n">>

\* fmt.Sprintf("%s_%s.json", smName, safeStateName)
StateFileName(smName, stateName) ==
    smName \o <<"_">> \o sanitizeFileName(stateName) \o DotJson

\* fmt.Sprintf("%s_execution_%s.json", smName, safeExecName)
ExecutionFileName(smName, executionArn) ==
    smName \o <<"_", "e", "x", "e", "c", "u", "t", "i", "o", "n", "_">>
           \o sanitizeFileName(ReplaceAll(executionArn, ":", "_")) \o DotJson

StateMachinesFileName ==
    <<"s", "t", "a", "t", "e", "_", "m", "a", "c", "h", "i", "n", "e", "s">> \o DotJson

\* os.WriteFile(name, content): the directory after a successful write
WriteFile(fs, name, content) ==
    [f \in DOMAIN fs \cup {name} |-> IF f = name THEN content ELSE fs[f]]

\* json.MarshalIndent of a []StateMachine: "null" for a nil slice, else a list.
MarshalStateMachines(sl) ==
    IF sl.isNil THEN [json |-> "null"]
    ELSE [json |-> "list", of |-> [i \in 1..Len(sl.elems) |-> sl.elems[i].ARN]]

-----------------------------------------------------------------------------
(* main: createOutputDirectory and processStateMachines *)

AfterMachine(i) ==
    IF i > Len(stateMachines.elems) THEN "save" ELSE "states"

\* os.MkdirAll succeeds; displayStateMachines follows and changes nothing.
CreateOutputDirectory ==
    /\ pcR = "mkdir"
    /\ dirCreated' = TRUE
    /\ smIdx' = 1
    /\ itemIdx' = 1
    /\ pcR' = AfterMachine(1)
    /\ UNCHANGED <<listedPages, listing, pageItems, discovered, stateMachines, files, derived,
                   writeFailures>>
    /\ UNCHANGED <<fetchVars, parseVars>>

\* os.MkdirAll fails: log.Fatalf.
CreateOutputDirectoryFail ==
    /\ pcR = "mkdir"
    /\ pcR' = "fatalMkdir"
    /\ UNCHANGED <<listedPages, listing, pageItems, discovered, stateMachines, dirCreated,
                   smIdx, itemIdx, files, derived, writeFailures>>
    /\ UNCHANGED <<fetchVars, parseVars>>

\* One os.WriteFile: it succeeds, or it fails and the error is logged.
Write(item, name, content) ==
    /\ derived' = derived \cup {[item |-> item, file |-> name]}
    /\ \/ /\ files' = WriteFile(files, name, content)
          /\ UNCHANGED writeFailures
       \/ /\ writeFailures < MaxWriteFailures
          /\ writeFailures' = writeFailures + 1
          /\ UNCHANGED files

\* processStates: the body of "for _, state := range sm.States".
\* json.MarshalIndent of a decoded JSON value does not fail.
ProcessState ==
    /\ pcR = "states"
    /\ itemIdx <= Len(stateMachines.elems[smIdx].States)
    /\ LET sm == stateMachines.elems[smIdx]
           state == sm.States[itemIdx]
       IN Write(<<"state", sm.ARN, state.Name>>,
                StateFileName(sm.Name, state.Name),
                [json |-> "state", of |-> state.RawDefinition])
    /\ itemIdx' = itemIdx + 1
    /\ UNCHANGED <<pcR, listedPages, listing, pageItems, discovered, stateMachines, dirCreated,
                   smIdx>>
    /\ UNCHANGED <<fetchVars, parseVars>>

\* processStates returns and processExecutions starts.
ProcessStatesDone ==
    /\ pcR = "states"
    /\ itemIdx > Len(stateMachines.elems[smIdx].States)
    /\ pcR' = "executions"
    /\ itemIdx' = 1
    /\ UNCHANGED <<listedPages, listing, pageItems, discovered, stateMachines, dirCreated,
                   smIdx, files, derived, writeFailures>>
    /\ UNCHANGED <<fetchVars, parseVars>>

\* Mutant of ProcessExecution: the test for "N/A" is missing.
ProcessExecutionOfAny ==
    /\ pcR = "executions"
    /\ itemIdx <= Len(stateMachines.elems[smIdx].Executions)
    /\ LET sm == stateMachines.elems[smIdx]
           exec == sm.Executions[itemIdx]
       IN Write(<<"execution", sm.ARN, exec.ExecutionArn>>,
                ExecutionFileName(sm.Name, exec.ExecutionArn),
                [json |-> "execution", of |-> exec])
    /\ itemIdx' = itemIdx + 1
    /\ UNCHANGED <<pcR, listedPages, listing, pageItems, discovered, stateMachines, dirCreated,
                   smIdx>>
    /\ UNCHANGED <<fetchVars, parseVars>>

\* processExecutions: the body of "for _, exec := range sm.Executions".
ProcessExecution ==
    /\ pcR = "executions"
    /\ itemIdx <= Len(stateMachines.elems[smIdx].Executions)
    /\ LET sm == stateMachines.elems[smIdx]
           exec == sm.Executions[itemIdx]
       IN IF exec.ExecutionArn # NAArn
          THEN Write(<<"execution", sm.ARN, exec.ExecutionArn>>,
                     ExecutionFileName(sm.Name, exec.ExecutionArn),
                     [json |-> "execution", of |-> exec])
          ELSE UNCHANGED <<files, derived, writeFailures>>
    /\ itemIdx' = itemIdx + 1
    /\ UNCHANGED <<pcR, listedPages, listing, pageItems, discovered, stateMachines, dirCreated,
                   smIdx>>
    /\ UNCHANGED <<fetchVars, parseVars>>

\* processExecutions returns: the next machine, or saveToFile.
ProcessExecutionsDone ==
    /\ pcR = "executions"
    /\ itemIdx > Len(stateMachines.elems[smIdx].Executions)
    /\ smIdx' = smIdx + 1
    /\ itemIdx' = 1
    /\ pcR' = AfterMachine(smIdx + 1)
    /\ UNCHANGED <<listedPages, listing, pageItems, discovered, stateMachines, dirCreated,
                   files, derived, writeFailures>>
    /\ UNCHANGED <<fetchVars, parseVars>>

\* saveToFile(stateMachines, "state_machines.json"); then main prints and
\* returns.
SaveToFile ==
    /\ pcR = "save"
    /\ Write(<<"collection">>, StateMachinesFileName,
             MarshalStateMachines(stateMachines))
    /\ pcR' = "exit"
    /\ UNCHANGED <<listedPages, listing, pageItems, discovered, stateMachines, dirCreated,
                   smIdx, itemIdx>>
    /\ UNCHANGED <<fetchVars, parseVars>>

RunIdle ==
    /\ pcR = "idle"
    /\ listedPages = 0
    /\ listing = <<>>
    /\ pageItems = <<>>
    /\ discovered = <<>>
    /\ stateMachines = NilSlice
    /\ dirCreated = FALSE
    /\ smIdx = 0
    /\ itemIdx = 0
    /\ files = <<>>
    /\ derived = {}
    /\ writeFailures = 0

RunInit ==
    /\ pcR = "list"
    /\ listedPages = 0
    /\ listing = <<>>
    /\ pageItems = <<>>
    /\ discovered = <<>>
    /\ stateMachines = NilSlice
    /\ dirCreated = FALSE
    /\ smIdx = 0
    /\ itemIdx = 0
    /\ files = <<>>
    /\ derived = {}
    /\ writeFailures = 0

Next ==
    \/ ListNextPage
    \/ ListNextPageFail
    \/ DetailFetch
    \/ ListReturn
    \/ CreateOutputDirectory
    \/ CreateOutputDirectoryFail
    \/ ProcessState
    \/ ProcessStatesDone
    \/ ProcessExecution
    \/ ProcessExecutionsDone
    \/ SaveToFile

-----------------------------------------------------------------------------
(* The specifications *)

Init == FetchIdle /\ ParseIdle /\ RunInit
Spec == Init /\ [][Next]_vars

InitFetch == FetchInit /\ ParseIdle /\ RunIdle
SpecFetch == InitFetch /\ [][FetchNext]_vars

InitParse == FetchIdle /\ ParseInit /\ RunIdle
SpecParse == InitParse /\ [][ParseNext]_vars

-----------------------------------------------------------------------------
(* Properties of the two execution fetchers (SpecFetch) *)

ClosingTypes == {"ExecutionSucceeded", "ExecutionFailed", "ExecutionTimedOut",
                 "ExecutionAborted"}

IsStartOf(i, X) ==
    /\ logEvents[i].parses
    /\ logEvents[i].ExecutionArn = X
    /\ logEvents[i].EventType = "ExecutionStarted"

IsClosingOf(i, X) ==
    /\ logEvents[i].parses
    /\ logEvents[i].ExecutionArn = X
    /\ logEvents[i].EventType \in ClosingTypes

StartsOf(X) == {i \in 1..Len(logEvents) : IsStartOf(i, X)}
FirstStartOf(X) == CHOOSE i \in StartsOf(X) : \A j \in StartsOf(X) : i <= j

\* The closing events that arrive while X has a record.
ClosersOf(X) ==
    IF StartsOf(X) = {} THEN {}
    ELSE {i \in 1..Len(logEvents) : IsClosingOf(i, X) /\ i > FirstStartOf(X)}
LastCloserOf(X) == CHOOSE i \in ClosersOf(X) : \A j \in ClosersOf(X) : j <= i

RecordsFor(X) == {k \in 1..Len(executions) : executions[k].ExecutionArn = X}

ExpressDone == fetcher = "EXPRESS" /\ pcF = "done"

\* C1 (as claimed): whenever "ExecutionStarted" for X is followed by
\* "ExecutionSucceeded" for X, the output holds exactly one record for X, with
\* status "SUCCEEDED" and duration success.timestamp - start.timestamp.
C1_StartThenSuccess ==
    ExpressDone =>
        \A X \in Arns : \A i, j \in 1..Len(logEvents) :
            (/\ i < j
             /\ IsStartOf(i, X)
             /\ logEvents[j].parses
             /\ logEvents[j].ExecutionArn = X
             /\ logEvents[j].EventType = "ExecutionSucceeded")
            => /\ Cardinality(RecordsFor(X)) = 1
               /\ \A k \in RecordsFor(X) :
                    /\ executions[k].Status = "SUCCEEDED"
                    /\ executions[k].Duration =
                         <<"dur", logEvents[j].Timestamp - logEvents[i].Timestamp>>

C10_RunningRecord ==
    ExpressDone =>
        \A X \in Arns :
            (/\ StartsOf(X) # {}
             /\ \A i \in 1..Len(logEvents) : ~IsClosingOf(i, X))
            => /\ Cardinality(RecordsFor(X)) = 1
               /\ \A k \in RecordsFor(X) :
                    /\ executions[k].Status = "RUNNING"
                    /\ executions[k].EndTime = EmptyStr
                    /\ executions[k].StartTime =
                         <<logEvents[FirstStartOf(X)].Timestamp \div 1000>>

\* Witness of C10: two start events of different seconds and no closing event.
C10_Witness ==
    /\ ExpressDone
    /\ \E X \in Arns :
        /\ \A i \in 1..Len(logEvents) : ~IsClosingOf(i, X)
        /\ \E i, j \in StartsOf(X) :
            /\ i < j
            /\ logEvents[i].Timestamp \div 1000 # logEvents[j].Timestamp \div 1000
        /\ RecordsFor(X) # {}

Seconds(t) == t[1]

\* The DescribeExecution results that produced a record, in order.
DescribedOk == SelectSeq(described, LAMBDA d : d.ok)

\* C3 (as claimed): every record with a non-empty EndTime has
\* EndTime >= StartTime and Duration = EndTime - StartTime.
C3_EndNotBeforeStart ==
    \A k \in 1..Len(executions) :
        LET r == executions[k]
        IN r.EndTime # EmptyStr
           => /\ Seconds(r.EndTime) >= Seconds(r.StartTime)
              /\ r.Duration =
                   <<"dur", 1000 * (Seconds(r.EndTime) - Seconds(r.StartTime))>>

\* C3 (amended): every record with a non-empty EndTime has
\* Duration = EndTime - StartTime (in whole seconds), and EndTime >= StartTime
\* whenever the end timestamp it was built from is not earlier than the start
\* timestamp (StopDate >= StartDate; closing event >= first start event).
C3_DurationIsEndMinusStart ==
    /\ \A k \in 1..Len(executions) :
        LET r == executions[k]
        IN r.EndTime # EmptyStr
           => r.Duration =
                <<"dur", 1000 * (Seconds(r.EndTime) - Seconds(r.StartTime))>>
    /\ (fetcher = "STANDARD" /\ ~fetchErr) =>
        /\ Len(executions) = Len(DescribedOk)
        /\ \A k \in 1..Len(executions) :
            LET d == DescribedOk[k]
                r == executions[k]
            IN /\ (r.EndTime # EmptyStr) <=> (d.StopDate # NoStop)
               /\ (d.StopDate # NoStop /\ d.StopDate >= d.StartDate)
                  => Seconds(r.EndTime) >= Seconds(r.StartTime)
    /\ ExpressDone =>
        \A k \in 1..Len(executions) :
            LET r == executions[k]
                X == r.ExecutionArn
            IN /\ (r.EndTime # EmptyStr) <=> (ClosersOf(X) # {})
               /\ (/\ ClosersOf(X) # {}
                   /\ logEvents[LastCloserOf(X)].Timestamp
                        >= logEvents[FirstStartOf(X)].Timestamp)
                  => Seconds(r.EndTime) >= Seconds(r.StartTime)

\* Witness of C3: getExecutions returns a finished record of positive duration.
C3_Witness ==
    /\ pcF = "done"
    /\ \E k \in 1..Len(executions) :
        /\ executions[k].EndTime # EmptyStr
        /\ executions[k].Duration # NA
        /\ executions[k].Duration[2] > 0
        /\ fetcher = "STANDARD"

-----------------------------------------------------------------------------
(* Properties of parseDefinition (SpecParse) *)

Returned == pcP = "returned"

\* The entries of the "States" object of the definition, when it has one.
HasStatesObject ==
    /\ definition.wf
    /\ definition.v.k = "obj"
    /\ "States" \in DOMAIN definition.v.o
    /\ definition.v.o["States"].k = "obj"
StatesEntries == definition.v.o["States"].o

HasField(entry, f, kind) ==
    /\ entry.k = "obj"
    /\ f \in DOMAIN entry.o
    /\ entry.o[f].k = kind

\* Type, Next, End and Parameters of s are the entry's fields of the right
\* type, and the zero value where the field is absent or of another type.
FieldsOrZero(s, entry) ==
    /\ s.Type = IF HasField(entry, "Type", "str") THEN entry.o["Type"].s ELSE ""
    /\ s.Next = IF HasField(entry, "Next", "str") THEN entry.o["Next"].s ELSE ""
    /\ s.End = IF HasField(entry, "End", "bool") THEN entry.o["End"].b ELSE FALSE
    /\ s.Parameters = IF HasField(entry, "Parameters", "obj")
                      THEN DecodeAny(entry.o["Parameters"]) ELSE GoNil

ObjectOrNull(v) == v.k = "obj" \/ v.k = "null"

RECURSIVE ExactValue(_)
\* The JSON value itself as a Go value: every number kept as written.
ExactValue(v) ==
    CASE v.k = "null" -> GoNil
      [] v.k = "bool" -> GoBool(v.b)
      [] v.k = "str" -> GoString(v.s)
      [] v.k = "num" -> GoNumber(v.wide, v.off)
      [] v.k = "arr" -> GoSlice
      [] v.k = "obj" -> GoMap([f \in DOMAIN v.o |-> ExactValue(v.o[f])])

AslDefinition ==
    /\ HasStatesObject
    /\ \A n \in DOMAIN StatesEntries : StatesEntries[n].k = "obj"

EntriesOf(n) == {i \in 1..Len(parsed.states) : parsed.states[i].Name = n}

-----------------------------------------------------------------------------
(* Properties of a run of main (Spec) *)

\* C4 (as claimed): the file names derived for two distinct output items (a
\* state of a machine, an execution of a machine, the collection) are distinct.
C4_DistinctFileNames ==
    \A a, b \in derived : a.item # b.item => a.file # b.file

\* The detail fetch of a machine fails when DescribeStateMachine fails, when
\* the definition does not parse, or, for a STANDARD machine, when a page of
\* ListExecutions fails.
DetailFetchSucceeds(d) ==
    /\ d.describeOk
    /\ ~UnmarshalFails(d.definition)
    /\ d.type = "STANDARD" => \A i \in 1..Len(d.execPages) : d.execPages[i].ok

ArnsOf(seq) == [i \in 1..Len(seq) |-> seq[i].ARN]
DiscoveredArns == [i \in 1..Len(discovered) |-> discovered[i].arn]
Fetched == SelectSeq(discovered, LAMBDA x : DetailFetchSucceeds(x.d))

\* C5: a failed detail fetch skips only that machine: every listed machine is
\* fetched, and the result holds exactly the machines whose fetch succeeds,
\* once each and in listing order; a failed listing page returns no machine.
C5_PartialResults ==
    /\ pcR = "fatalList" => stateMachines = NilSlice
    /\ pcR # "fatalList" =>
        /\ listing = DiscoveredArns \o pageItems
        /\ ArnsOf(stateMachines.elems)
             = [i \in 1..Len(Fetched) |-> Fetched[i].arn]
    /\ pcR \notin {"list", "fatalList"} => pageItems = <<>>

\* Witness of C5: the first of two listed machines failed, the second is the
\* result.
C5_Witness ==
    /\ pcR = "mkdir"
    /\ Len(discovered) = 2
    /\ ~DetailFetchSucceeds(discovered[1].d)
    /\ DetailFetchSucceeds(discovered[2].d)
    /\ ArnsOf(stateMachines.elems) = <<discovered[2].arn>>

NoLogGroup(d) ==
    /\ d.describeOk
    /\ ~UnmarshalFails(d.definition)
    /\ d.type = "EXPRESS"
    /\ d.logging \in {"nil", "noDestinations", "noLogGroupArn"}

IsSentinelList(execs) ==
    /\ Len(execs) = 1
    /\ execs[1].ExecutionArn = NAArn
    /\ execs[1].Status = "Not supported (check CloudWatch Logs configuration)"

C7_EmptyRegionWritesEmptyList ==
    (listing = <<>> /\ listedPages > 0 /\ pcR \in {"mkdir", "save", "exit"}
       /\ writeFailures = 0)
    => /\ pcR = "exit" =>
            /\ dirCreated
            /\ DOMAIN files = {StateMachinesFileName}
            /\ files[StateMachinesFileName] = [json |-> "list", of |-> <<>>]
       /\ DOMAIN files \subseteq {StateMachinesFileName}

=============================================================================
